---- MODULE Spec2Model ----
(***************************************************************************)
(* Model of the subtitle/video synthesis tool: the pairing engine and the  *)
(* batch coordinator of batch_merger.py, and the validator, frame-rate     *)
(* parser, bitrate estimator, prober, capability detector, merge           *)
(* orchestrator and command line of ffmpeg_subtitle_merger.py.             *)
(*                                                                         *)
(* A file name is a sequence of characters; the model's alphabet has one   *)
(* symbol per name part ("movie", "mp4", ...) and the symbol "." for the   *)
(* dot, so that str.startswith, Path.stem and Path.suffix are computed on  *)
(* the name as the code computes them.  A directory is the sequence of its *)
(* components below the scanned root, and a path is [dir, name].           *)
(***************************************************************************)
EXTENDS Integers, Sequences, FiniteSets, TLC

VARIABLES
    fs,             \* the filesystem: path -> [size, readable]
    pc,             \* position of the running command
    cmd,            \* the command run: "batch", "single", "pairs", ..., or "none"
    args,           \* the command's arguments
    video_files,    \* find_video_subtitle_pairs: the scanned video list
    subtitle_files, \* find_video_subtitle_pairs: the scanned subtitle list
    pairs,          \* batch_merge: the discovered pairs
    i,              \* batch_merge: index of the next pair of the loop
    success_count,  \* batch_merge: success_count
    failed_files,   \* batch_merge: failed_files
    succeeded_files,\* videos whose merge returned normally
    skipped_files,  \* videos whose iteration ended in `continue`
    merge_calls,    \* videos merge_video_subtitle was invoked on, in order
    reported,       \* dry run: the output names printed
    exit_status,    \* the process exit status, -1 while running
    prev,           \* summary of the previous command of this history
    nruns,          \* commands run before the current one
    verdict,        \* result of the last call of the operation the command runs
    returned        \* <<b>> once batch_merge has returned b, <<>> before

vars == <<fs, pc, cmd, args, video_files, subtitle_files, pairs, i,
          success_count, failed_files, succeeded_files, skipped_files, merge_calls,
          reported, exit_status, prev, nruns, verdict, returned>>

----------------------------------------------------------------------------
(* Bounds *)

MaxFiles == 3
MaxPairFiles == 4
MaxRateLen == 3

----------------------------------------------------------------------------
(* Strings and paths *)

Dot == "."

\* str.startswith
StartsWith(s, p) == Len(p) <= Len(s) /\ SubSeq(s, 1, Len(p)) = p

\* str.endswith
EndsWith(s, p) == Len(p) <= Len(s) /\ SubSeq(s, Len(s) - Len(p) + 1, Len(s)) = p

\* str.rfind('.'), 1-based, 0 when there is no dot
RFindDot(name) ==
    LET dots == {k \in 1..Len(name) : name[k] = Dot}
    IN  IF dots = {} THEN 0 ELSE CHOOSE k \in dots : \A j \in dots : j <= k

\* pathlib: a name has a suffix when its last dot is neither first nor last
HasSuffix(name) == 1 < RFindDot(name) /\ RFindDot(name) < Len(name)

\* Path(p).suffix
PathSuffix(name) ==
    IF HasSuffix(name) THEN SubSeq(name, RFindDot(name), Len(name)) ELSE <<>>

\* Path(p).stem
PathStem(name) ==
    IF HasSuffix(name) THEN SubSeq(name, 1, RFindDot(name) - 1) ELSE name

\* str.lower, character by character
LowerChar(c) ==
    CASE c = "MP4" -> "mp4"
      [] c = "ASS" -> "ass"
      [] c = "Movie" -> "movie"
      [] OTHER -> c

Lower(s) == [k \in 1..Len(s) |-> LowerChar(s[k])]

\* PurePath.relative_to(other) succeeds (raises no ValueError)
IsRelativeTo(dir, other) == StartsWith(dir, other)

\* os.path.exists
Exists(f, path) == path \in DOMAIN f

----------------------------------------------------------------------------
(* Pairing engine: BatchSubtitleMerger.find_video_subtitle_pairs *)

video_extensions == <<"mp4", "avi", "mkv", "mov", "mps", "ts", "m2ts">>
subtitle_extensions == <<"ass", "srt", "vtt", "sub">>

\* glob pattern '*.ext': the name ends with ".ext" and is not hidden
GlobMatch(name, ext) == EndsWith(name, <<Dot, ext>>) /\ name[1] # Dot

\* glob.glob(os.path.join(directory, '**', '*.ext'), recursive=True)
Glob(f, directory, ext) ==
    {p \in DOMAIN f : StartsWith(p.dir, directory) /\ GlobMatch(p.name, ext)}

\* the orders in which one glob call can return the files it finds
RECURSIVE Orders(_)
Orders(S) ==
    IF S = {} THEN {<<>>}
    ELSE UNION {{<<x>> \o rest : rest \in Orders(S \ {x})} : x \in S}

\* the lists the scanning loop can build: the patterns are globbed in the
\* order of `exts` and each result is appended to the list
ScanLists(f, directory, exts) ==
    LET RECURSIVE From(_)
        From(k) ==
            IF k > Len(exts) THEN {<<>>}
            ELSE {head \o rest : head \in Orders(Glob(f, directory, exts[k])),
                                 rest \in From(k + 1)}
    IN  From(1)

\* variant: the stems compared without regard to case
StemRelatedIgnoreCase(subtitle_stem, video_stem) ==
    \/ Lower(subtitle_stem) = Lower(video_stem)
    \/ StartsWith(Lower(subtitle_stem), Lower(video_stem) \o <<Dot>>)
    \/ StartsWith(Lower(video_stem), Lower(subtitle_stem) \o <<Dot>>)

\* the name test of the candidate filter
StemRelated(subtitle_stem, video_stem) ==
    \/ subtitle_stem = video_stem
    \/ StartsWith(subtitle_stem, video_stem \o <<Dot>>)
    \/ StartsWith(video_stem, subtitle_stem \o <<Dot>>)

\* variant: no directory test
DirRelatedAnywhere(video_dir, subtitle_dir) == TRUE

\* the directory test of the candidate filter: the two relative_to attempts
\* and the equality fallback
DirRelated(video_dir, subtitle_dir) ==
    \/ IsRelativeTo(video_dir, subtitle_dir)
    \/ IsRelativeTo(subtitle_dir, video_dir)
    \/ video_dir = subtitle_dir

IsCandidate(video_file, subtitle_file) ==
    /\ StemRelated(PathStem(subtitle_file.name), PathStem(video_file.name))
    /\ DirRelated(video_file.dir, subtitle_file.dir)

\* variant: every scanned subtitle is a candidate
matching_subtitles_all(video_file, subs) == subs

matching_subtitles(video_file, subs) ==
    SelectSeq(subs, LAMBDA s : IsCandidate(video_file, s))

\* the exact-stem candidates, in order
ExactMatches(video_file, matching) ==
    SelectSeq(matching, LAMBDA s : PathStem(s.name) = PathStem(video_file.name))

\* variant: the first candidate, exact or not
best_match_first(video_file, matching) == matching[1]

best_match(video_file, matching) ==
    IF ExactMatches(video_file, matching) # <<>>
    THEN Head(ExactMatches(video_file, matching))
    ELSE matching[1]

find_video_subtitle_pairs(videos, subs) ==
    LET matched == SelectSeq(videos, LAMBDA v : matching_subtitles(v, subs) # <<>>)
    IN  [k \in 1..Len(matched) |->
            <<matched[k], best_match(matched[k], matching_subtitles(matched[k], subs))>>]

----------------------------------------------------------------------------
(* Input validator: FFmpegSubtitleMerger.validate_inputs *)

supported_video_formats ==
    {<<Dot, "mps">>, <<Dot, "mp4">>, <<Dot, "avi">>, <<Dot, "mkv">>,
     <<Dot, "mov">>, <<Dot, "ts">>, <<Dot, "m2ts">>}

supported_subtitle_formats ==
    {<<Dot, "ass">>, <<Dot, "srt">>, <<Dot, "vtt">>, <<Dot, "sub">>}

Raised(exc, check) == [exc |-> exc, check |-> check]

Passed == Raised("none", "passed")

\* os.access(path, os.R_OK)
Readable(f, path) == f[path].readable

\* os.path.getsize
GetSize(f, path) == f[path].size

\* variant: the size checks made before the format checks
validate_inputs_size_first(f, video_path, subtitle_path) ==
    IF ~Exists(f, video_path)
        THEN Raised("FileNotFoundError", "video_exists")
    ELSE IF ~Exists(f, subtitle_path)
        THEN Raised("FileNotFoundError", "subtitle_exists")
    ELSE IF ~Readable(f, video_path)
        THEN Raised("PermissionError", "video_readable")
    ELSE IF ~Readable(f, subtitle_path)
        THEN Raised("PermissionError", "subtitle_readable")
    ELSE IF GetSize(f, video_path) = 0
        THEN Raised("ValueError", "video_size")
    ELSE IF GetSize(f, subtitle_path) = 0
        THEN Raised("ValueError", "subtitle_size")
    ELSE IF Lower(PathSuffix(video_path.name)) \notin supported_video_formats
        THEN Raised("ValueError", "video_format")
    ELSE IF Lower(PathSuffix(subtitle_path.name)) \notin supported_subtitle_formats
        THEN Raised("ValueError", "subtitle_format")
    ELSE Passed

\* the exception validate_inputs raises, or Passed
validate_inputs(f, video_path, subtitle_path) ==
    IF ~Exists(f, video_path)
        THEN Raised("FileNotFoundError", "video_exists")
    ELSE IF ~Exists(f, subtitle_path)
        THEN Raised("FileNotFoundError", "subtitle_exists")
    ELSE IF ~Readable(f, video_path)
        THEN Raised("PermissionError", "video_readable")
    ELSE IF ~Readable(f, subtitle_path)
        THEN Raised("PermissionError", "subtitle_readable")
    ELSE IF Lower(PathSuffix(video_path.name)) \notin supported_video_formats
        THEN Raised("ValueError", "video_format")
    ELSE IF Lower(PathSuffix(subtitle_path.name)) \notin supported_subtitle_formats
        THEN Raised("ValueError", "subtitle_format")
    ELSE IF GetSize(f, video_path) = 0
        THEN Raised("ValueError", "video_size")
    ELSE IF GetSize(f, subtitle_path) = 0
        THEN Raised("ValueError", "subtitle_size")
    ELSE Passed

----------------------------------------------------------------------------
(* Frame-rate parser: FFmpegSubtitleMerger.parse_frame_rate                *)
(*                                                                         *)
(* A frame-rate string is a sequence of lexical tokens: numerals, "/", a   *)
(* character that belongs to no number ("x"), and the float literal "nan". *)
(* "huge" is a numeral of some four hundred digits, beyond the range of a  *)
(* double.  A float is [kind, num, den]: the rational num/den when kind is *)
(* "finite"; doubles are not rounded, the rates enumerated being ones on   *)
(* which the estimator's double arithmetic and the exact one agree.        *)

Slash == "/"
Huge == "huge"

\* numerals of an unsigned integer
UnsignedNumerals == {"0", "1", "10", "25", "50", "1001", "30000", Huge}

\* numerals int() and Fraction() take as an integer
IntNumerals == UnsignedNumerals \cup {"-25"}

\* tokens float() takes that are no integer numeral
DecimalNumerals == {"12.5"}

RateTokens == IntNumerals \cup DecimalNumerals \cup {Slash, "x", "nan"}

\* the value of an integer numeral other than Huge
IntOf(tok) ==
    CASE tok = "0" -> 0
      [] tok = "1" -> 1
      [] tok = "10" -> 10
      [] tok = "25" -> 25
      [] tok = "50" -> 50
      [] tok = "1001" -> 1001
      [] tok = "30000" -> 30000
      [] tok = "-25" -> -25

Float(kind, num, den) == [kind |-> kind, num |-> num, den |-> den]
Finite(num, den) == Float("finite", num, den)
Inf == Float("inf", 1, 1)
NaN == Float("nan", 0, 1)

\* the result of a conversion: the value, or the exception raised
Value(v) == [exc |-> "none", value |-> v]
Raises(exc) == [exc |-> exc, value |-> NaN]

\* float(Fraction(rate_str)) on a string that holds a '/'
FractionToFloat(rate_str) ==
    IF ~(Len(rate_str) = 3 /\ rate_str[2] = Slash /\ rate_str[1] \in IntNumerals
            /\ rate_str[3] \in UnsignedNumerals)
        THEN Raises("ValueError")
    ELSE IF rate_str[3] = "0"
        THEN Raises("ZeroDivisionError")
    ELSE IF rate_str[1] = Huge /\ rate_str[3] = Huge
        THEN Value(Finite(1, 1))
    ELSE IF rate_str[1] = Huge
        THEN Raises("OverflowError")
    ELSE IF rate_str[3] = Huge
        THEN Value(Finite(0, 1))
    ELSE Value(Finite(IntOf(rate_str[1]), IntOf(rate_str[3])))

\* float(rate_str)
StrToFloat(rate_str) ==
    IF Len(rate_str) # 1 THEN Raises("ValueError")
    ELSE IF rate_str[1] = Huge THEN Value(Inf)
    ELSE IF rate_str[1] \in IntNumerals THEN Value(Finite(IntOf(rate_str[1]), 1))
    ELSE IF rate_str[1] = "12.5" THEN Value(Finite(25, 2))
    ELSE IF rate_str[1] = "nan" THEN Value(NaN)
    ELSE Raises("ValueError")

\* what the except clause of parse_frame_rate catches
RateErrorsCaught == {"ValueError", "ZeroDivisionError"}

\* [exc |-> the exception that leaves parse_frame_rate, or "none", value |-> the
\*  float returned]
parse_frame_rate(rate_str) ==
    LET r == IF \E k \in 1..Len(rate_str) : rate_str[k] = Slash
                THEN FractionToFloat(rate_str)
                ELSE StrToFloat(rate_str)
    IN  IF r.exc \in RateErrorsCaught THEN Value(Finite(25, 1)) ELSE r

----------------------------------------------------------------------------
(* Bitrate estimator: FFmpegSubtitleMerger.calculate_smart_bitrate *)

\* the value an operation returns, or the exception it raises
Returns(v) == [exc |-> "none", value |-> v]
Throws(exc) == [exc |-> exc, value |-> 0]

\* int(x) of the rational a * n / d, for 0 <= a and 0 < d: the quotient
\* truncated towards zero, computed in parts so that no intermediate product
\* is larger than a * d
MulDivTrunc(a, n, d) ==
    LET m == IF n < 0 THEN 0 - n ELSE n
        t == a * (m \div d) + (a * (m % d)) \div d
    IN  IF n < 0 THEN 0 - t ELSE t

\* variant: the breakpoints excluded from their own class
BaseBitrateBelow(pixels) ==
    IF pixels < 640 * 480 THEN 1500000
    ELSE IF pixels < 1280 * 720 THEN 3000000
    ELSE IF pixels < 1920 * 1080 THEN 5000000
    ELSE IF pixels < 3840 * 2160 THEN 15000000
    ELSE 40000000

\* base_bitrate
BaseBitrate(pixels) ==
    IF pixels <= 640 * 480 THEN 1500000
    ELSE IF pixels <= 1280 * 720 THEN 3000000
    ELSE IF pixels <= 1920 * 1080 THEN 5000000
    ELSE IF pixels <= 3840 * 2160 THEN 15000000
    ELSE 40000000

\* int(base_bitrate * min(fps / 25.0, 2.0)): min returns fps / 25.0 unless
\* 2.0 is smaller, so a NaN reaches int() and raises ValueError
ScaleByFps(base_bitrate, fps) ==
    CASE fps.kind = "nan" -> Throws("ValueError")
      [] fps.kind = "inf" -> Returns(2 * base_bitrate)
      [] OTHER -> IF fps.num >= 50 * fps.den
                     THEN Returns(2 * base_bitrate)
                     ELSE Returns(MulDivTrunc(base_bitrate \div 25, fps.num, fps.den))

calculate_smart_bitrate(width, height, fps, original_bitrate) ==
    IF original_bitrate > 0 THEN Returns(original_bitrate)
    ELSE ScaleByFps(BaseBitrate(width * height), fps)

----------------------------------------------------------------------------
(* Metadata prober: FFmpegSubtitleMerger.probe_video_info                  *)
(*                                                                         *)
(* The answer of ffmpeg.probe is an error or a list of streams.  A stream  *)
(* has a codec_type and, present or absent, the integers width and height  *)
(* and the strings r_frame_rate, duration and bit_rate.                    *)

ProbeOutcomes ==
    {"ok", "ffmpeg_error", "no_video_stream", "no_resolution", "frame_rate_error"}

\* every failure inside probe_video_info leaves it as a RuntimeError
probe_video_info(outcome) ==
    IF outcome = "ok" THEN Passed ELSE Raised("RuntimeError", "probe")

\* a key of the stream dictionary, with its value, or a missing key
Present(v) == [present |-> TRUE, v |-> v]
AbsentInt == [present |-> FALSE, v |-> 0]
AbsentStr == [present |-> FALSE, v |-> <<>>]

\* video_stream.get(key, default)
Get(field, default) == IF field.present THEN field.v ELSE default

\* int(text): the integer, or ValueError
StrToInt(text) ==
    IF Len(text) = 1 /\ text[1] = "4000000" THEN Returns(4000000)
    ELSE IF Len(text) = 1 /\ text[1] \in IntNumerals \ {Huge} THEN Returns(IntOf(text[1]))
    ELSE Throws("ValueError")

\* variant: the last stream of type 'video'
FirstVideoLast(streams) ==
    LET video == {k \in 1..Len(streams) : streams[k].codec_type = "video"}
    IN  IF video = {} THEN 0 ELSE CHOOSE k \in video : \A j \in video : j <= k

\* next((stream for stream in probe['streams'] if ... == 'video'), None):
\* the position of the stream selected, 0 for None
FirstVideo(streams) ==
    LET video == {k \in 1..Len(streams) : streams[k].codec_type = "video"}
    IN  IF video = {} THEN 0 ELSE CHOOSE k \in video : \A j \in video : k <= j

\* duration: 0.0 unless the key is present and float() reads it
ProbedDuration(video_stream) ==
    IF video_stream.duration.present /\ StrToFloat(video_stream.duration.v).exc = "none"
        THEN StrToFloat(video_stream.duration.v).value
        ELSE Finite(0, 1)

\* bitrate: 0 unless the key is present and int() reads it
ProbedBitrate(video_stream) ==
    IF video_stream.bit_rate.present /\ StrToInt(video_stream.bit_rate.v).exc = "none"
        THEN StrToInt(video_stream.bit_rate.v).value
        ELSE 0

\* fps = self.parse_frame_rate(video_stream.get('r_frame_rate', '25/1'))
ProbedFps(video_stream) ==
    parse_frame_rate(Get(video_stream.r_frame_rate, <<"25", Slash, "1">>))

\* where probe_video_info ends on an answer of ffmpeg.probe
ProbeOutcome(answer) ==
    IF answer.error THEN "ffmpeg_error"
    ELSE IF FirstVideo(answer.streams) = 0 THEN "no_video_stream"
    ELSE LET video_stream == answer.streams[FirstVideo(answer.streams)]
         IN  IF Get(video_stream.width, 0) = 0 \/ Get(video_stream.height, 0) = 0
                 THEN "no_resolution"
             ELSE IF ProbedFps(video_stream).exc # "none"
                 THEN "frame_rate_error"
             ELSE "ok"

\* video_info, without the codec name and the pixel format, which nothing reads
VideoInfo(width, height, fps, duration, bitrate) ==
    [width |-> width, height |-> height, fps |-> fps, duration |-> duration,
     bitrate |-> bitrate]

NoInfo == VideoInfo(0, 0, NaN, NaN, 0)

\* [raised |-> the exception that leaves probe_video_info, or Passed,
\*  info |-> the dictionary returned]
ProbeVideo(answer) ==
    IF ProbeOutcome(answer) # "ok"
        THEN [raised |-> probe_video_info(ProbeOutcome(answer)), info |-> NoInfo]
        ELSE LET video_stream == answer.streams[FirstVideo(answer.streams)]
             IN  [raised |-> probe_video_info("ok"),
                  info |-> VideoInfo(Get(video_stream.width, 0),
                                     Get(video_stream.height, 0),
                                     ProbedFps(video_stream).value,
                                     ProbedDuration(video_stream),
                                     ProbedBitrate(video_stream))]

----------------------------------------------------------------------------
(* Hardware capability detector: FFmpegSubtitleMerger.check_nvidia_support *)

\* subprocess.run(['ffmpeg', '-encoders'], timeout=10)
Stage1Outcomes ==
    {"listed", "not_listed", "nonzero_exit", "timeout", "subprocess_error", "missing"}

\* ffmpeg.run(... vcodec='h264_nvenc' ...)
Stage2Outcomes == {"ok", "ffmpeg_error", "timeout", "missing"}

\* stage 1 returns True only on exit 0 with the encoder listed; its except
\* clause swallows TimeoutExpired, SubprocessError and FileNotFoundError
Stage1Available(stage1) == stage1 = "listed"

\* [ret |-> the boolean returned, exc |-> the exception that escapes, or "none",
\*  trial |-> whether the trial encode ran]
check_nvidia_support(stage1, stage2) ==
    IF Stage1Available(stage1)
        THEN [ret |-> TRUE, exc |-> "none", trial |-> FALSE]
    ELSE IF stage2 = "ok"
        THEN [ret |-> TRUE, exc |-> "none", trial |-> TRUE]
    ELSE IF stage2 \in {"ffmpeg_error", "timeout"}
        THEN [ret |-> FALSE, exc |-> "none", trial |-> TRUE]
    ELSE [ret |-> FALSE, exc |-> "FileNotFoundError", trial |-> TRUE]

----------------------------------------------------------------------------
(* Merge orchestrator: FFmpegSubtitleMerger.merge_video_subtitle *)

\* ffmpeg.run(output): success, or ffmpeg.Error leaving no output file, a
\* truncated one or an empty one
EncodeOutcomes == {"ok", "error", "error_truncated", "error_empty"}

\* the distinct results of the probe and of the detector over the answers of
\* the external tool
ProbeResults == {probe_video_info(o) : o \in ProbeOutcomes}
DetectResults ==
    {check_nvidia_support(s1, s2) : s1 \in Stage1Outcomes, s2 \in Stage2Outcomes}

NewFile(size) == [size |-> size, readable |-> TRUE]

\* the file at `path` created or overwritten
WriteFile(f, path, size) ==
    [p \in DOMAIN f \cup {path} |-> IF p = path THEN NewFile(size) ELSE f[p]]

\* the filesystem after the encode invocation (overwrite_output)
EncodeEffect(f, output_path, encode) ==
    CASE encode = "ok" -> WriteFile(f, output_path, 1)
      [] encode = "error_truncated" -> WriteFile(f, output_path, 1)
      [] encode = "error_empty" -> WriteFile(f, output_path, 0)
      [] OTHER -> f

MergeResult(raised, steps, f) == [raised |-> raised, steps |-> steps, fs |-> f]

\* the distinct results of the estimator: a bitrate, or the ValueError of a
\* frame rate that is no number
BitrateResults ==
    {calculate_smart_bitrate(1920, 1080, fps, 0) : fps \in {Finite(25, 1), NaN}}

\* variant: the probe made before the validation
merge_video_subtitle_probe_first(f, video_path, subtitle_path, output_path, p, b, n, encode) ==
    LET v == validate_inputs(f, video_path, subtitle_path)
    IN  IF p # Passed
            THEN MergeResult(p, <<"probe">>, f)
        ELSE IF v # Passed
            THEN MergeResult(v, <<"probe", "validate">>, f)
        ELSE IF b.exc # "none"
            THEN MergeResult(Raised(b.exc, "bitrate"), <<"probe", "validate", "bitrate">>, f)
        ELSE IF n.exc # "none"
            THEN MergeResult(Raised(n.exc, "detect"),
                             <<"probe", "validate", "bitrate", "detect">>, f)
        ELSE IF encode # "ok"
            THEN MergeResult(Raised("RuntimeError", "encode"),
                             <<"probe", "validate", "bitrate", "detect", "encode">>,
                             EncodeEffect(f, output_path, encode))
        ELSE MergeResult(Passed,
                         <<"probe", "validate", "bitrate", "detect", "encode">>,
                         EncodeEffect(f, output_path, encode))

\* [raised |-> the exception that leaves merge_video_subtitle, or Passed,
\*  steps |-> the steps started, in order, fs |-> the filesystem afterwards]
\* for the results p of the probe, b of the estimator and n of the detector
merge_video_subtitle(f, video_path, subtitle_path, output_path, p, b, n, encode) ==
    LET v == validate_inputs(f, video_path, subtitle_path)
    IN  IF v # Passed
            THEN MergeResult(v, <<"validate">>, f)
        ELSE IF p # Passed
            THEN MergeResult(p, <<"validate", "probe">>, f)
        ELSE IF b.exc # "none"
            THEN MergeResult(Raised(b.exc, "bitrate"), <<"validate", "probe", "bitrate">>, f)
        ELSE IF n.exc # "none"
            THEN MergeResult(Raised(n.exc, "detect"),
                             <<"validate", "probe", "bitrate", "detect">>, f)
        ELSE IF encode # "ok"
            THEN MergeResult(Raised("RuntimeError", "encode"),
                             <<"validate", "probe", "bitrate", "detect", "encode">>,
                             EncodeEffect(f, output_path, encode))
        ELSE MergeResult(Passed,
                         <<"validate", "probe", "bitrate", "detect", "encode">>,
                         EncodeEffect(f, output_path, encode))

\* what one call can do, over every behaviour of the external tool
MergeResults(f, video_path, subtitle_path, output_path) ==
    {merge_video_subtitle(f, video_path, subtitle_path, output_path, p, b, n, encode) :
        p \in ProbeResults, b \in BitrateResults, n \in DetectResults,
        encode \in EncodeOutcomes}

----------------------------------------------------------------------------
(* Merge orchestrator: the subtitle filter and the encoding plan *)

\* os.sep
Sep(os_name) == IF os_name = "nt" THEN "\\" ELSE "/"

\* the string of a path: its components joined by the separator
PathStr(path, os_name) ==
    LET RECURSIVE Join(_)
        Join(dir) == IF dir = <<>> THEN <<>>
                     ELSE <<Head(dir), Sep(os_name)>> \o Join(Tail(dir))
    IN  Join(path.dir) \o path.name

\* the working directory, which is the root of the tree
Cwd(os_name) == IF os_name = "nt" THEN <<"C", ":", "\\">> ELSE <<"/">>

\* os.path.abspath of a path relative to the working directory
AbsPath(path_str, os_name) == Cwd(os_name) \o path_str

\* str.replace(old, new) for a character old
RECURSIVE Replace(_, _, _)
Replace(str, old, new) ==
    IF str = <<>> THEN <<>>
    ELSE (IF Head(str) = old THEN new ELSE <<Head(str)>>) \o Replace(Tail(str), old, new)

escape_subtitle_path(subtitle_path, os_name) ==
    LET abs_path == AbsPath(subtitle_path, os_name)
        normalized == IF os_name = "nt"
                         THEN Replace(Replace(abs_path, "\\", <<"/">>), ":", <<"\\", ":">>)
                         ELSE abs_path
    IN  Replace(Replace(normalized, "[", <<"\\", "[">>), "]", <<"\\", "]">>)

\* subtitle_filter_params (force_style, handed on unchanged, left out)
SubtitleFilter(subtitle_path, os_name) ==
    [name |-> "subtitles", filename |-> PathStr(subtitle_path, os_name)]

\* variant: the peak rate twice the target
MaxRateDouble(smart_bitrate) == 2 * smart_bitrate

\* int(smart_bitrate * 1.2)
MaxRate(smart_bitrate) == MulDivTrunc(6, smart_bitrate, 5)

\* int(smart_bitrate * 2)
BufSize(smart_bitrate) == 2 * smart_bitrate

\* video_codec
VideoCodec(use_nvenc) == IF use_nvenc THEN "h264_nvenc" ELSE "libx264"

\* the options a plan leaves out
Unset == "unset"

\* codec_params; a number stands for its decimal string
CodecParams(use_nvenc, smart_bitrate) ==
    IF use_nvenc
        THEN [preset |-> "medium", rc |-> "vbr", cq |-> "23", crf |-> Unset,
              b_v |-> smart_bitrate, maxrate |-> MaxRate(smart_bitrate),
              bufsize |-> BufSize(smart_bitrate), gpu |-> "0", threads |-> Unset,
              limits |-> TRUE]
        ELSE [preset |-> "medium", rc |-> Unset, cq |-> Unset, crf |-> "23",
              b_v |-> smart_bitrate, maxrate |-> 0, bufsize |-> 0, gpu |-> Unset,
              threads |-> "0", limits |-> FALSE]

\* output_params
OutputParams(use_nvenc, smart_bitrate) ==
    [vcodec |-> VideoCodec(use_nvenc), acodec |-> "copy", pix_fmt |-> "yuv420p",
     codec_params |-> CodecParams(use_nvenc, smart_bitrate)]

\* the command handed to ffmpeg.run
Invocation(subtitle_path, os_name, use_nvenc, smart_bitrate) ==
    [built |-> TRUE, filter |-> SubtitleFilter(subtitle_path, os_name),
     output |-> OutputParams(use_nvenc, smart_bitrate)]

\* no command: the merge ended before it built one
NoInvocation ==
    [built |-> FALSE, filter |-> [name |-> "none", filename |-> <<>>],
     output |-> OutputParams(FALSE, 0)]

----------------------------------------------------------------------------
(* The directory trees and arguments the commands are run on *)

Root == <<>>
Sub1 == <<"s1">>
Sub2 == <<"s2">>

\* the directories of the tree; they exist whether or not they hold files
Dirs == {Root, Sub1, Sub2}

\* a directory argument naming no existing directory
MissingDir == <<"gone">>

File(dir, name) == [dir |-> dir, name |-> name]

MovieMp4 == <<"movie", Dot, "mp4">>
MoviePartMkv == <<"movie", Dot, "part1", Dot, "mkv">>
MovieAss == <<"movie", Dot, "ass">>
MovieSrt == <<"movie", Dot, "srt">>
MovieChsAss == <<"movie", Dot, "chs", Dot, "ass">>
UpperMovieSrt == <<"Movie", Dot, "srt">>
OtherSrt == <<"other", Dot, "srt">>

\* the files a scanned tree may hold (pairing)
PairNames == {MovieMp4, MoviePartMkv, MovieAss, MovieSrt, MovieChsAss, UpperMovieSrt, OtherSrt}
PairUniverse == {File(d, n) : d \in Dirs, n \in PairNames}

\* the output suffixes a batch may be given: the default kind, the empty
\* suffix, and one that starts with a dot
Suffixes == {<<"_with_subtitles">>, <<>>, <<Dot, "sub">>}

\* the files a batch directory may hold at the start
BatchUniverse ==
    {File(Root, MovieMp4), File(Root, MovieAss), File(Sub1, MovieMp4),
     File(Root, MoviePartMkv), File(Root, <<"movie", "_with_subtitles", Dot, "mp4">>),
     File(Sub1, MovieAss)}

\* a file is non-empty and readable, empty, or unreadable
Attrs == {[size |-> 1, readable |-> TRUE], [size |-> 0, readable |-> TRUE],
          [size |-> 1, readable |-> FALSE]}

FullAttrs == [size : {0, 1}, readable : BOOLEAN]

Subsets(S, n) == {T \in SUBSET S : Cardinality(T) <= n}

Trees(universe, n, attrs) == UNION {[T -> attrs] : T \in Subsets(universe, n)}

\* the paths the single-file command may be given
NoFile == File(Root, <<"nofile", Dot, "mp4">>)
SingleOutput == File(Root, <<"out", Dot, "mp4">>)

NoPrev ==
    [cmd |-> "none", args |-> <<>>, exit_status |-> -1, pairs |-> <<>>,
     succeeded |-> {}, failed |-> {}, skipped |-> {}]

Range(s) == {s[k] : k \in 1..Len(s)}

InitCommon ==
    /\ pc = "start"
    /\ cmd = "none"
    /\ args = <<>>
    /\ video_files = <<>>
    /\ subtitle_files = <<>>
    /\ pairs = <<>>
    /\ i = 0
    /\ success_count = 0
    /\ failed_files = <<>>
    /\ succeeded_files = <<>>
    /\ skipped_files = <<>>
    /\ merge_calls = <<>>
    /\ reported = <<>>
    /\ exit_status = -1
    /\ prev = NoPrev
    /\ nruns = 0
    /\ verdict = Passed
    /\ returned = <<>>

Init ==
    /\ fs \in Trees(BatchUniverse, MaxFiles, Attrs)
    /\ InitCommon

----------------------------------------------------------------------------
(* Batch coordinator: BatchSubtitleMerger.batch_merge and main *)

\* video_path.parent / f"{video_path.stem}{output_suffix}{video_path.suffix}"
OutputPath(video_file, output_suffix) ==
    File(video_file.dir,
         PathStem(video_file.name) \o output_suffix \o PathSuffix(video_file.name))

\* os.path.exists(args.directory)
DirExists(directory) == directory \in Dirs

\* variant: success reported whatever failed
AllSucceededAlways(failed) == TRUE

\* batch_merge's return value after the loop
AllSucceeded(failed) == Len(failed) = 0

\* main's exit status when batch_merge returned `success`: both branches
\* only print, and main returns
BatchExitStatus(success) == IF success THEN 0 ELSE 0

\* variant: the existence test made on the video's name followed by the suffix
SkipsPairWrongPath(f, video_file, output_suffix) ==
    Exists(f, File(video_file.dir, video_file.name \o output_suffix))

\* variant: no existence test
SkipsPairNever(f, video_file, output_suffix) == FALSE

\* the iteration of the loop takes `continue`
SkipsPair(f, video_file, output_suffix) ==
    Exists(f, OutputPath(video_file, output_suffix))

\* variant: the first failure leaves the loop
AfterFailureBreak(idx, n) == n + 1

\* variant: the pair that failed tried again
AfterFailureRetry(idx, n) == idx

\* the loop's position after an iteration that raised
AfterFailure(idx, n) == idx + 1

\* variant: the dry-run flag ignored
PreviewOnlyIgnored(dry_run) == FALSE

\* `if dry_run:` takes the preview branch, which returns before the loop
PreviewOnly(dry_run) == dry_run

\* main of batch_merger.py run with the given arguments, up to the loop
BatchMainWith(directory, suffix, dry_run) ==
    /\ pc = "start"
    /\  /\ cmd' = "batch"
        /\ args' = [directory |-> directory, suffix |-> suffix, dry_run |-> dry_run]
        /\ IF ~DirExists(directory)
           THEN /\ pc' = "exited"
                /\ exit_status' = 1
                /\ UNCHANGED <<video_files, subtitle_files, pairs, i, reported,
                               returned>>
           ELSE \E vf \in ScanLists(fs, directory, video_extensions),
                   sf \in ScanLists(fs, directory, subtitle_extensions) :
                    LET found == find_video_subtitle_pairs(vf, sf)
                    IN  /\ video_files' = vf
                        /\ subtitle_files' = sf
                        /\ pairs' = found
                        /\ IF found = <<>>
                           THEN /\ pc' = "exited"
                                /\ returned' = <<FALSE>>
                                /\ exit_status' = BatchExitStatus(FALSE)
                                /\ UNCHANGED <<i, reported>>
                           ELSE IF PreviewOnly(dry_run)
                           THEN /\ reported' =
                                     [k \in 1..Len(found) |->
                                         OutputPath(found[k][1], suffix).name]
                                /\ pc' = "exited"
                                /\ returned' = <<TRUE>>
                                /\ exit_status' = BatchExitStatus(TRUE)
                                /\ UNCHANGED i
                           ELSE /\ pc' = "loop"
                                /\ i' = 1
                                /\ UNCHANGED <<exit_status, reported, returned>>
    /\ UNCHANGED <<fs, success_count, failed_files, succeeded_files, skipped_files,
                   merge_calls, prev, nruns, verdict>>

BatchMain ==
    \E directory \in {Root, Sub1, MissingDir}, suffix \in Suffixes, dry_run \in BOOLEAN :
        BatchMainWith(directory, suffix, dry_run)

LoopStep ==
    /\ pc = "loop"
    /\ i <= Len(pairs)
    /\ LET video_file == pairs[i][1]
           subtitle_file == pairs[i][2]
           output_file == OutputPath(video_file, args.suffix)
       IN  IF SkipsPair(fs, video_file, args.suffix)
           THEN /\ skipped_files' = Append(skipped_files, video_file)
                /\ i' = i + 1
                /\ UNCHANGED <<fs, success_count, failed_files, succeeded_files,
                               merge_calls, verdict>>
           ELSE \E r \in MergeResults(fs, video_file, subtitle_file, output_file) :
                    /\ merge_calls' = Append(merge_calls, video_file)
                    /\ fs' = r.fs
                    /\ verdict' = r.raised
                    /\ IF r.raised = Passed
                       THEN /\ success_count' = success_count + 1
                            /\ succeeded_files' = Append(succeeded_files, video_file)
                            /\ i' = i + 1
                            /\ UNCHANGED failed_files
                       ELSE /\ failed_files' = Append(failed_files, video_file)
                            /\ i' = AfterFailure(i, Len(pairs))
                            /\ UNCHANGED <<success_count, succeeded_files>>
                    /\ UNCHANGED skipped_files
    /\ UNCHANGED <<pc, cmd, args, video_files, subtitle_files, pairs, reported,
                   exit_status, prev, nruns, returned>>

BatchFinish ==
    /\ pc = "loop"
    /\ i > Len(pairs)
    /\ pc' = "exited"
    /\ returned' = <<AllSucceeded(failed_files)>>
    /\ exit_status' = BatchExitStatus(AllSucceeded(failed_files))
    /\ UNCHANGED <<fs, cmd, args, video_files, subtitle_files, pairs, i,
                   success_count, failed_files, succeeded_files, skipped_files,
                   merge_calls, reported, prev, nruns, verdict>>

\* KeyboardInterrupt is no Exception: it leaves the loop and reaches main's
\* handler, between two steps or inside the encode of the current pair
Interrupt ==
    /\ pc = "loop"
    /\ \/ UNCHANGED <<fs, merge_calls>>
       \/ /\ i <= Len(pairs)
          /\ ~SkipsPair(fs, pairs[i][1], args.suffix)
          /\ validate_inputs(fs, pairs[i][1], pairs[i][2]) = Passed
          /\ merge_calls' = Append(merge_calls, pairs[i][1])
          /\ \E encode \in {"error_truncated", "error_empty"} :
                fs' = EncodeEffect(fs, OutputPath(pairs[i][1], args.suffix), encode)
    /\ pc' = "exited"
    /\ exit_status' = 130
    /\ UNCHANGED <<cmd, args, video_files, subtitle_files, pairs, i, success_count,
                   failed_files, succeeded_files, skipped_files, reported, prev,
                   nruns, verdict, returned>>

----------------------------------------------------------------------------
(* Single-file command: main of ffmpeg_subtitle_merger.py *)

\* --check-only: validate, probe and detect, the first exception ending it
CheckOnly(f, video_path, subtitle_path, p, n) ==
    LET v == validate_inputs(f, video_path, subtitle_path)
    IN  IF v # Passed THEN v
        ELSE IF p # Passed THEN p
        ELSE IF n.exc # "none" THEN Raised(n.exc, "detect")
        ELSE Passed

CheckOnlyResults(f, video_path, subtitle_path) ==
    {MergeResult(CheckOnly(f, video_path, subtitle_path, p, n), <<>>, f) :
        p \in ProbeResults, n \in DetectResults}

\* main's exit status: it returns after the try block, or exits 1 from the
\* `except Exception` handler
SingleExitStatus(raised) == IF raised = Passed THEN 0 ELSE 1

SingleMain ==
    /\ pc = "start"
    /\ \E video \in DOMAIN fs \cup {NoFile}, subtitle \in DOMAIN fs \cup {NoFile},
          check_only \in BOOLEAN :
        /\ cmd' = "single"
        /\ args' = [video |-> video, subtitle |-> subtitle, output |-> SingleOutput,
                    check_only |-> check_only]
        /\ \E r \in IF check_only
                    THEN CheckOnlyResults(fs, video, subtitle)
                    ELSE MergeResults(fs, video, subtitle, SingleOutput) :
            /\ fs' = r.fs
            /\ verdict' = r.raised
            /\ \/ exit_status' = SingleExitStatus(r.raised)
               \/ /\ r.raised # Passed
                  /\ exit_status' = 130
    /\ pc' = "exited"
    /\ UNCHANGED <<video_files, subtitle_files, pairs, i, success_count, failed_files,
                   succeeded_files, skipped_files, merge_calls, reported, prev, nruns,
                   returned>>

---------------------------------------------------------------------------------------------------------------------------------------------------
(* The commands run on a tree *)

Next ==
    \/ BatchMain
    \/ LoopStep
    \/ BatchFinish
    \/ Interrupt
    \/ SingleMain

Spec == Init /\ [][Next]_vars

----------------------------------------------------------------------------
(* The batch command run again, with the same arguments, on the tree its   *)
(* previous run left                                                       *)

Archive ==
    [cmd |-> cmd, args |-> args, exit_status |-> exit_status,
     pairs |-> pairs, succeeded |-> Range(succeeded_files),
     failed |-> Range(failed_files), skipped |-> Range(skipped_files)]

BatchFirst ==
    /\ nruns = 0
    /\ \E directory \in {Root, Sub1}, suffix \in Suffixes :
        BatchMainWith(directory, suffix, FALSE)

BatchAgain ==
    /\ pc = "exited"
    /\ nruns = 0
    /\ prev' = Archive
    /\ nruns' = nruns + 1
    /\ pc' = "start"
    /\ cmd' = "none"
    /\ args' = <<>>
    /\ video_files' = <<>>
    /\ subtitle_files' = <<>>
    /\ pairs' = <<>>
    /\ i' = 0
    /\ success_count' = 0
    /\ failed_files' = <<>>
    /\ succeeded_files' = <<>>
    /\ skipped_files' = <<>>
    /\ merge_calls' = <<>>
    /\ reported' = <<>>
    /\ exit_status' = -1
    /\ verdict' = Passed
    /\ returned' = <<>>
    /\ UNCHANGED fs

BatchSecond ==
    /\ nruns > 0
    /\ BatchMainWith(prev.args.directory, prev.args.suffix, prev.args.dry_run)

NextRerun ==
    \/ BatchFirst
    \/ LoopStep
    \/ BatchFinish
    \/ BatchAgain
    \/ BatchSecond

\* the files the directory of a repeated batch may hold at the start
RerunUniverse ==
    {File(Root, MovieMp4), File(Root, MovieAss), File(Sub1, MovieMp4),
     File(Root, MoviePartMkv)}

InitRerun ==
    /\ fs \in Trees(RerunUniverse, MaxFiles, Attrs)
    /\ InitCommon

SpecRerun == InitRerun /\ [][NextRerun]_vars

----------------------------------------------------------------------------
(* The pairing engine run on a tree *)

InitPairs ==
    /\ fs \in Trees(PairUniverse, MaxPairFiles, {NewFile(1)})
    /\ InitCommon

FindPairs ==
    /\ pc = "start"
    /\ \E directory \in {Root, Sub1} :
        /\ args' = [directory |-> directory]
        /\ \E vf \in ScanLists(fs, directory, video_extensions),
              sf \in ScanLists(fs, directory, subtitle_extensions) :
            /\ video_files' = vf
            /\ subtitle_files' = sf
            /\ pairs' = find_video_subtitle_pairs(vf, sf)
    /\ cmd' = "pairs"
    /\ pc' = "exited"
    /\ UNCHANGED <<fs, i, success_count, failed_files, succeeded_files, skipped_files,
                   merge_calls, reported, exit_status, prev, nruns, verdict, returned>>

NextPairs == FindPairs

SpecPairs == InitPairs /\ [][NextPairs]_vars

----------------------------------------------------------------------------
(* The validator run on a video and a subtitle path *)

UpperMovieMp4 == <<"movie", Dot, "MP4">>
MovieTxt == <<"movie", Dot, "txt">>

ValidateUniverse ==
    {File(Root, MovieMp4), File(Root, UpperMovieMp4), File(Root, MovieTxt),
     File(Root, MovieAss)}

InitValidate ==
    /\ fs \in Trees(ValidateUniverse, Cardinality(ValidateUniverse), FullAttrs)
    /\ InitCommon

Validate ==
    /\ pc = "start"
    /\ \E video \in ValidateUniverse, subtitle \in ValidateUniverse :
        /\ args' = [video |-> video, subtitle |-> subtitle]
        /\ verdict' = validate_inputs(fs, video, subtitle)
    /\ cmd' = "validate"
    /\ pc' = "exited"
    /\ UNCHANGED <<fs, video_files, subtitle_files, pairs, i, success_count,
                   failed_files, succeeded_files, skipped_files, merge_calls,
                   reported, exit_status, prev, nruns, returned>>

NextValidate == Validate

SpecValidate == InitValidate /\ [][NextValidate]_vars

----------------------------------------------------------------------------
(* The frame-rate parser run on a string *)

\* the tree of a command that reads no file
NoTree == [path \in {} |-> NewFile(1)]

RateStrings == UNION {[1..n -> RateTokens] : n \in 0..MaxRateLen}

InitNoTree ==
    /\ fs = NoTree
    /\ InitCommon

ParseRate ==
    /\ pc = "start"
    /\ \E rate_str \in RateStrings :
        /\ args' = [rate_str |-> rate_str]
        /\ verdict' = parse_frame_rate(rate_str)
    /\ cmd' = "rate"
    /\ pc' = "exited"
    /\ UNCHANGED <<fs, video_files, subtitle_files, pairs, i, success_count,
                   failed_files, succeeded_files, skipped_files, merge_calls,
                   reported, exit_status, prev, nruns, returned>>

NextRate == ParseRate

SpecRate == InitNoTree /\ [][NextRate]_vars

----------------------------------------------------------------------------
(* The bitrate estimator run on a resolution, a frame rate and a bitrate *)

Widths == {640, 641, 1280, 1920, 3840, 7680}
Heights == {480, 720, 1080, 2160, 4320}

\* the frame rates parse_frame_rate returns
FrameRates ==
    {parse_frame_rate(rate_str).value :
        rate_str \in {r \in RateStrings : parse_frame_rate(r).exc = "none"}}

\* source bitrates: unknown, known, and a negative number
Bitrates == {0, 4000000, -25}

Estimate ==
    /\ pc = "start"
    /\ \E width \in Widths, height \in Heights, fps \in FrameRates,
          original_bitrate \in Bitrates :
        /\ args' = [width |-> width, height |-> height, fps |-> fps,
                    original_bitrate |-> original_bitrate]
        /\ verdict' = calculate_smart_bitrate(width, height, fps, original_bitrate)
    /\ cmd' = "bitrate"
    /\ pc' = "exited"
    /\ UNCHANGED <<fs, video_files, subtitle_files, pairs, i, success_count,
                   failed_files, succeeded_files, skipped_files, merge_calls,
                   reported, exit_status, prev, nruns, returned>>

NextBitrate == Estimate

SpecBitrate == InitNoTree /\ [][NextBitrate]_vars

----------------------------------------------------------------------------
(* The prober run on an answer of ffmpeg.probe *)

Stream(codec_type, width, height, r_frame_rate, duration, bit_rate) ==
    [codec_type |-> codec_type, width |-> width, height |-> height,
     r_frame_rate |-> r_frame_rate, duration |-> duration, bit_rate |-> bit_rate]

AudioStream == Stream("audio", AbsentInt, AbsentInt, Present(<<"0", Slash, "0">>),
                      Present(<<"12.5">>), Present(<<"1001">>))

\* the frame rates a stream may report
StreamRates ==
    {AbsentStr, Present(<<"30000", Slash, "1001">>), Present(<<"0", Slash, "0">>),
     Present(<<"0", Slash, "1">>), Present(<<Huge, Slash, "1">>), Present(<<"nan">>)}

\* the durations and bitrates a stream may report; "x" reads as no number
StreamDurations == {AbsentStr, Present(<<"12.5">>), Present(<<"x">>)}
StreamBitrates ==
    {AbsentStr, Present(<<"4000000">>), Present(<<"0">>), Present(<<"x">>),
     Present(<<"12.5">>)}

VideoStreams ==
    {Stream("video", width, height, r_frame_rate, duration, bit_rate) :
        width \in {AbsentInt, Present(0), Present(640), Present(1920)},
        height \in {AbsentInt, Present(0), Present(480), Present(1080)},
        r_frame_rate \in StreamRates, duration \in StreamDurations,
        bit_rate \in StreamBitrates}

\* the streams that may follow a video stream
SecondStreams ==
    {AudioStream,
     Stream("video", Present(1280), Present(720), Present(<<"25", Slash, "1">>),
            Present(<<"10">>), Present(<<"1001">>)),
     Stream("video", AbsentInt, Present(0), AbsentStr, AbsentStr, AbsentStr)}

StreamLists ==
    {<<>>, <<AudioStream>>}
        \cup {<<v>> : v \in VideoStreams}
        \cup {<<AudioStream, v>> : v \in VideoStreams}
        \cup {<<v, w>> : v \in VideoStreams, w \in SecondStreams}

Answer(error, streams) == [error |-> error, streams |-> streams]

ProbeAnswers == {Answer(TRUE, <<>>)} \cup {Answer(FALSE, l) : l \in StreamLists}

Probe ==
    /\ pc = "start"
    /\ \E answer \in ProbeAnswers :
        /\ args' = [answer |-> answer]
        /\ verdict' = ProbeVideo(answer)
    /\ cmd' = "probe"
    /\ pc' = "exited"
    /\ UNCHANGED <<fs, video_files, subtitle_files, pairs, i, success_count,
                   failed_files, succeeded_files, skipped_files, merge_calls,
                   reported, exit_status, prev, nruns, returned>>

NextProbe == Probe

SpecProbe == InitNoTree /\ [][NextProbe]_vars

----------------------------------------------------------------------------
(* One merge run on a video and a subtitle, with the answers of the        *)
(* external tool and the platform                                          *)

BracketAss == <<"movie", "[", "1", "]", Dot, "ass">>

MergeVideo == File(Root, MovieMp4)
MergeSubtitle == File(Sub1, BracketAss)
MergeUniverse == {MergeVideo, MergeSubtitle}

\* the answers of ffmpeg.probe a merge is run on
MergeAnswers ==
    {Answer(TRUE, <<>>),
     Answer(FALSE, <<Stream("video", Present(0), Present(1080), AbsentStr, AbsentStr,
                            AbsentStr)>>)}
        \cup {Answer(FALSE, <<AudioStream,
                               Stream("video", Present(1920), Present(1080), r_frame_rate,
                                      AbsentStr, bit_rate)>>) :
                    r_frame_rate \in {Present(<<"30000", Slash, "1001">>),
                                      Present(<<"0", Slash, "1">>),
                                      Present(<<"-25", Slash, "1">>),
                                      Present(<<Huge, Slash, "1">>),
                                      Present(<<"nan">>)},
                    bit_rate \in {AbsentStr, Present(<<"4000000">>)}}

\* os.name
OsNames == {"posix", "nt"}

NotStarted == [exc |-> "not_started", value |-> 0]
NotDetected == [ret |-> FALSE, exc |-> "not_started", trial |-> FALSE]

\* one call of merge_video_subtitle: its result, with the target bitrate, the
\* detector's result and the command built, as far as the call got
RunMerge(f, video_path, subtitle_path, output_path, answer, stage1, stage2, encode, os_name) ==
    LET probe == ProbeVideo(answer)
        smart_bitrate == calculate_smart_bitrate(probe.info.width, probe.info.height,
                                                 probe.info.fps, probe.info.bitrate)
        use_nvenc == check_nvidia_support(stage1, stage2)
        r == merge_video_subtitle(f, video_path, subtitle_path, output_path,
                                  probe.raised, smart_bitrate, use_nvenc, encode)
        started == Range(r.steps)
    IN  [raised |-> r.raised, steps |-> r.steps, fs |-> r.fs,
         smart_bitrate |-> IF "bitrate" \in started THEN smart_bitrate ELSE NotStarted,
         use_nvenc |-> IF "detect" \in started THEN use_nvenc ELSE NotDetected,
         invocation |-> IF "encode" \in started
                           THEN Invocation(subtitle_path, os_name, use_nvenc.ret,
                                           smart_bitrate.value)
                           ELSE NoInvocation]

InitMerge ==
    /\ fs \in Trees(MergeUniverse, Cardinality(MergeUniverse), Attrs)
    /\ InitCommon

Merge ==
    /\ pc = "start"
    /\ \E answer \in MergeAnswers, stage1 \in Stage1Outcomes, stage2 \in Stage2Outcomes,
          encode \in EncodeOutcomes, os_name \in OsNames :
        LET r == RunMerge(fs, MergeVideo, MergeSubtitle, SingleOutput, answer, stage1,
                          stage2, encode, os_name)
        IN  /\ args' = [video |-> MergeVideo, subtitle |-> MergeSubtitle,
                        output |-> SingleOutput, answer |-> answer, stage1 |-> stage1,
                        stage2 |-> stage2, encode |-> encode, os_name |-> os_name]
            /\ fs' = r.fs
            /\ verdict' = [raised |-> r.raised, steps |-> r.steps,
                           smart_bitrate |-> r.smart_bitrate, use_nvenc |-> r.use_nvenc,
                           invocation |-> r.invocation]
    /\ cmd' = "merge"
    /\ pc' = "exited"
    /\ UNCHANGED <<video_files, subtitle_files, pairs, i, success_count, failed_files,
                   succeeded_files, skipped_files, merge_calls, reported, exit_status,
                   prev, nruns, returned>>

NextMerge == Merge

SpecMerge == InitMerge /\ [][NextMerge]_vars

----------------------------------------------------------------------------
(* Properties of the pairing engine, under SpecPairs *)

Paired == pc = "exited" /\ cmd = "pairs"

VideoOf(k) == pairs[k][1]
SubtitleOf(k) == pairs[k][2]

\* a is the directory b or one above it
AncestorOrSelf(a, b) == Len(a) <= Len(b) /\ \A k \in 1..Len(a) : a[k] = b[k]

\* the positions of the scanned subtitles that are candidates of a video
CandidatePositions(video_file) ==
    {k \in 1..Len(subtitle_files) : IsCandidate(video_file, subtitle_files[k])}

ExactPositions(video_file) ==
    {k \in CandidatePositions(video_file) :
        PathStem(subtitle_files[k].name) = PathStem(video_file.name)}

Least(S) == CHOOSE k \in S : \A j \in S : k <= j

\* C6, as stated: in every returned pair the subtitle's stem equals the
\* video's stem or starts with the video's stem followed by a dot.
C6_StemEqualOrDotted ==
    Paired =>
        \A k \in 1..Len(pairs) :
            \/ PathStem(SubtitleOf(k).name) = PathStem(VideoOf(k).name)
            \/ StartsWith(PathStem(SubtitleOf(k).name),
                          PathStem(VideoOf(k).name) \o <<Dot>>)

\* C6, amended: in every returned pair the subtitle's stem equals the video's
\* stem (case-sensitively), or starts with the video's stem followed by a
\* dot, or the video's stem starts with the subtitle's stem followed by a dot.
C6_StemEqualOrDottedEitherWay ==
    Paired =>
        \A k \in 1..Len(pairs) :
            \/ PathStem(SubtitleOf(k).name) = PathStem(VideoOf(k).name)
            \/ StartsWith(PathStem(SubtitleOf(k).name),
                          PathStem(VideoOf(k).name) \o <<Dot>>)
            \/ StartsWith(PathStem(VideoOf(k).name),
                          PathStem(SubtitleOf(k).name) \o <<Dot>>)

\* C6, witness: a returned pair whose video stem extends the subtitle's stem
\* by a dotted part, in a tree that also holds a subtitle differing only in case.
C6_Witness ==
    /\ Paired
    /\ \E k \in 1..Len(pairs) :
        /\ VideoOf(k).name = MoviePartMkv
        /\ SubtitleOf(k).name = MovieAss
    /\ \E s \in Range(subtitle_files) : s.name = UpperMovieSrt

\* C7: in every returned pair the subtitle's directory is the video's
\* directory, an ancestor of it or a descendant of it (so never a sibling),
\* and a video with a stem-matching subtitle in a directory above its own is
\* paired.
C7_DirectoryLocality ==
    Paired =>
        /\ \A k \in 1..Len(pairs) :
            \/ AncestorOrSelf(SubtitleOf(k).dir, VideoOf(k).dir)
            \/ AncestorOrSelf(VideoOf(k).dir, SubtitleOf(k).dir)
        /\ \A v \in Range(video_files), s \in Range(subtitle_files) :
            (/\ AncestorOrSelf(s.dir, v.dir)
             /\ s.dir # v.dir
             /\ PathStem(s.name) = PathStem(v.name))
                => \E k \in 1..Len(pairs) : VideoOf(k) = v

\* C7, witness: a video of s1 paired with the subtitle of the root while a
\* subtitle of the same stem lies in the sibling s2.
C7_Witness ==
    /\ Paired
    /\ pairs = <<<<File(Sub1, MovieMp4), File(Root, MovieAss)>>>>
    /\ \E s \in Range(subtitle_files) : s.dir = Sub2 /\ PathStem(s.name) = <<"movie">>

\* C8: the subtitle chosen for a video is its first exact-stem candidate in
\* scan order when it has one, and its first candidate otherwise.
C8_TieBreak ==
    Paired =>
        \A k \in 1..Len(pairs) :
            IF ExactPositions(VideoOf(k)) # {}
            THEN /\ SubtitleOf(k) = subtitle_files[Least(ExactPositions(VideoOf(k)))]
                 /\ PathStem(SubtitleOf(k).name) = PathStem(VideoOf(k).name)
            ELSE SubtitleOf(k) = subtitle_files[Least(CandidatePositions(VideoOf(k)))]

\* C8, witness: a video with two exact-stem candidates, both scanned after a
\* dotted candidate, is paired with the first of the two.
C8_Witness ==
    /\ Paired
    /\ \E k \in 1..Len(pairs) :
        /\ Cardinality(ExactPositions(VideoOf(k))) = 2
        /\ Least(CandidatePositions(VideoOf(k))) < Least(ExactPositions(VideoOf(k)))
        /\ SubtitleOf(k) = subtitle_files[Least(ExactPositions(VideoOf(k)))]

\* C9: the videos of the returned pairs are exactly the scanned videos that
\* have a candidate subtitle, in scan order and each once; every returned
\* subtitle is a scanned candidate of its video; and the tree holding
\* movie.mp4, movie.ass and other.srt in one directory yields exactly the pair
\* (movie.mp4, movie.ass).
C9_PairIffCandidate ==
    Paired =>
        /\ {VideoOf(k) : k \in 1..Len(pairs)} =
               {v \in Range(video_files) : CandidatePositions(v) # {}}
        /\ \A j, k \in 1..Len(pairs) : j # k => VideoOf(j) # VideoOf(k)
        /\ \A k \in 1..Len(pairs) :
               \E c \in CandidatePositions(VideoOf(k)) : SubtitleOf(k) = subtitle_files[c]
        /\ \A d \in Dirs :
            (/\ DOMAIN fs = {File(d, MovieMp4), File(d, MovieAss), File(d, OtherSrt)}
             /\ StartsWith(d, args.directory))
                => pairs = <<<<File(d, MovieMp4), File(d, MovieAss)>>>>

\* C9, witness: the scan of the directory holding movie.mp4, movie.ass and
\* other.srt has returned one pair.
C9_Witness ==
    /\ Paired
    /\ DOMAIN fs = {File(Root, MovieMp4), File(Root, MovieAss), File(Root, OtherSrt)}
    /\ Len(video_files) = 1
    /\ Len(subtitle_files) = 2
    /\ Len(pairs) = 1

----------------------------------------------------------------------------
(* Properties of the validator, under SpecValidate *)

Validated == pc = "exited" /\ cmd = "validate"

CheckNames ==
    <<"video_exists", "subtitle_exists", "video_readable", "subtitle_readable",
      "video_format", "subtitle_format", "video_size", "subtitle_size", "passed">>

CheckExceptions ==
    <<"FileNotFoundError", "FileNotFoundError", "PermissionError", "PermissionError",
      "ValueError", "ValueError", "ValueError", "ValueError", "none">>

\* the k-th check of the order holds of the arguments
CheckHolds(k) ==
    CASE k = 1 -> args.video \in DOMAIN fs
      [] k = 2 -> args.subtitle \in DOMAIN fs
      [] k = 3 -> fs[args.video].readable
      [] k = 4 -> fs[args.subtitle].readable
      [] k = 5 -> Lower(PathSuffix(args.video.name)) \in supported_video_formats
      [] k = 6 -> Lower(PathSuffix(args.subtitle.name)) \in supported_subtitle_formats
      [] k = 7 -> fs[args.video].size # 0
      [] k = 8 -> fs[args.subtitle].size # 0

\* the first check that fails, 9 when none does
FirstFailing ==
    LET RECURSIVE From(_)
        From(k) == IF k > 8 THEN 9 ELSE IF ~CheckHolds(k) THEN k ELSE From(k + 1)
    IN  From(1)

\* C10: validate_inputs reports the first failing check of the order video
\* exists, subtitle exists, video readable, subtitle readable, video format,
\* subtitle format, video size, subtitle size, and passes only when all hold;
\* with both files present and readable, an empty video of a supported
\* extension with a supported subtitle fails on its size, and a .txt video
\* fails on its format whatever its size.
C10_FirstFailingCheck ==
    Validated =>
        /\ verdict = Raised(CheckExceptions[FirstFailing], CheckNames[FirstFailing])
        /\ (verdict = Passed) = (\A k \in 1..8 : CheckHolds(k))
        /\ (/\ \A k \in 1..6 : CheckHolds(k)
            /\ fs[args.video].size = 0) => verdict = Raised("ValueError", "video_size")
        /\ (/\ \A k \in 1..4 : CheckHolds(k)
            /\ args.video.name = MovieTxt) => verdict = Raised("ValueError", "video_format")

\* C10, witness: an empty .txt video, present and readable beside an empty
\* subtitle, has been rejected for its format.
C10_Witness ==
    /\ Validated
    /\ args.video.name = MovieTxt
    /\ args.subtitle.name = MovieAss
    /\ \A k \in 1..4 : CheckHolds(k)
    /\ fs[args.video].size = 0
    /\ fs[args.subtitle].size = 0
    /\ verdict = Raised("ValueError", "video_format")

----------------------------------------------------------------------------
(* Properties of the batch coordinator and of the commands, under Spec *)

\* the batch command is past its arguments and is really merging
Merging == cmd = "batch" /\ DirExists(args.directory) /\ ~args.dry_run

Examined == Range(succeeded_files) \cup Range(failed_files) \cup Range(skipped_files)

\* C1: in a batch that is not a dry run, the pairs examined so far are
\* exactly the pairs before the loop's position, whatever failed among them:
\* a failure is recorded once, against the video whose merge raised, counts
\* no success, and when the batch ends without interruption every discovered
\* pair has been examined (merged, failed or skipped).
C1_FailureIsolation ==
    Merging =>
        /\ Examined = {pairs[k][1] : k \in 1..(i - 1)}
        /\ Cardinality(Range(failed_files)) = Len(failed_files)
        /\ Range(failed_files) \subseteq Range(merge_calls)
        /\ Range(failed_files) \cap Range(succeeded_files) = {}
        /\ success_count = Len(succeeded_files)
        /\ (pc = "exited" /\ exit_status # 130) =>
               Examined = {pairs[k][1] : k \in 1..Len(pairs)}

\* C1, witness: a finished batch whose first pair failed and whose second
\* pair was then merged.
C1_Witness ==
    /\ Merging
    /\ pc = "exited"
    /\ exit_status # 130
    /\ Len(pairs) = 2
    /\ failed_files = <<pairs[1][1]>>
    /\ succeeded_files = <<pairs[2][1]>>

\* C2: a step of a batch that is not a dry run, taken when the output path
\* of the pair reached exists, invokes no merge, changes no file and counts
\* the pair neither as a success nor as a failure; and no step of the batch
\* command changes or removes a file that exists.
C2_SkipsExistingOutput ==
    [][ /\ (/\ Merging
            /\ pc = "loop"
            /\ i <= Len(pairs)
            /\ Exists(fs, OutputPath(pairs[i][1], args.suffix)))
              => /\ merge_calls' = merge_calls
                 /\ fs' = fs
                 /\ success_count' = success_count
                 /\ failed_files' = failed_files
                 /\ (pc' = "loop" => i' = i + 1 /\ skipped_files' = Append(skipped_files, pairs[i][1]))
        /\ cmd' = "batch" =>
              \A path \in DOMAIN fs : path \in DOMAIN fs' /\ fs'[path] = fs[path]
      ]_vars

\* C2, witness: a batch with the empty suffix has finished having skipped its
\* pair, whose output path is the source video, without any merge.
C2_Witness ==
    /\ Merging
    /\ pc = "exited"
    /\ exit_status = 0
    /\ args.suffix = <<>>
    /\ pairs # <<>>
    /\ Len(skipped_files) = Len(pairs)
    /\ merge_calls = <<>>
    /\ OutputPath(pairs[1][1], args.suffix) = pairs[1][1]

\* C4: a dry run ends at once, reports one output name per discovered pair
\* (the video's stem, the suffix, the video's extension), invokes no merge
\* and leaves the filesystem as it was.
C4_DryRunOnlyReports ==
    [][ (cmd' = "batch" /\ args'.dry_run) =>
            /\ pc' = "exited"
            /\ fs' = fs
            /\ merge_calls' = <<>>
            /\ Len(reported') = Len(pairs')
            /\ \A k \in 1..Len(pairs') :
                 reported'[k] = PathStem(pairs'[k][1].name) \o args'.suffix
                                   \o PathSuffix(pairs'[k][1].name)
      ]_vars

\* C4, witness: a dry run over two pairs, one of whose outputs exists, has
\* reported two names.
C4_Witness ==
    /\ cmd = "batch"
    /\ args.dry_run
    /\ pc = "exited"
    /\ Len(pairs) = 2
    /\ Len(reported) = 2
    /\ \E k \in 1..2 : Exists(fs, OutputPath(pairs[k][1], args.suffix))

\* C5, as stated: a command exits with status 0 only on full success: a
\* batch that has exited with 0 has no failed pair, and a single-file command
\* that has exited with 0 raised nothing.
C5_ExitStatus ==
    (pc = "exited" /\ exit_status = 0) =>
        /\ cmd = "batch" => failed_files = <<>>
        /\ cmd = "single" => verdict = Passed

----------------------------------------------------------------------------
(* Properties of the batch command run twice, under SpecRerun *)

\* the batch command is running again after a finished run with the same
\* directory and suffix
SecondRun ==
    /\ nruns > 0
    /\ cmd = "batch"
    /\ prev.cmd = "batch"
    /\ args = prev.args
    /\ ~args.dry_run

\* C3, as stated: the second run of the batch command invokes no merge.
C3_SecondRunMergesNothing == SecondRun => merge_calls = <<>>

\* C3, amended: the second run invokes no merge for a video that the first
\* run merged successfully or skipped, and once it has finished every such
\* video that it discovered in a pair has been skipped; it may invoke the
\* merge again for a pair whose merge failed in the first run, and for a pair
\* that the first run did not discover.
C3_SecondRunSkipsDone ==
    SecondRun =>
        /\ Range(merge_calls) \cap (prev.succeeded \cup prev.skipped) = {}
        /\ Range(merge_calls) \subseteq
               prev.failed \cup {v \in Range(video_files) :
                                    \A k \in 1..Len(prev.pairs) : prev.pairs[k][1] # v}
        /\ pc = "exited" =>
               \A k \in 1..Len(pairs) :
                   pairs[k][1] \in prev.succeeded \cup prev.skipped
                       => pairs[k][1] \in Range(skipped_files)

\* C3, witness: the second run has finished having skipped the video that the
\* first run merged and merged again the video whose merge failed in the first.
C3_Witness ==
    /\ SecondRun
    /\ pc = "exited"
    /\ \E v \in prev.succeeded : v \in Range(skipped_files)
    /\ \E v \in prev.failed : v \in Range(merge_calls)

----------------------------------------------------------------------------
(* Properties of the frame-rate parser, under SpecRate *)

RateParsed == pc = "exited" /\ cmd = "rate"

\* the string reads "n/d" with n an integer and d a positive integer
WellFormedRational(rate_str) ==
    /\ Len(rate_str) = 3
    /\ rate_str[1] \in IntNumerals
    /\ rate_str[2] = Slash
    /\ rate_str[3] \in UnsignedNumerals \ {"0"}

\* the string is a literal float() reads
FloatLiteral(rate_str) ==
    Len(rate_str) = 1 /\ rate_str[1] \in IntNumerals \cup DecimalNumerals \cup {"nan"}

\* C16: parse_frame_rate raises for no frame-rate string; a well-formed
\* rational "n/d" with d # 0 yields n/d ("25/1" yields 25, "30000/1001"
\* yields 30000/1001), and every unparseable string, a zero denominator
\* included, yields the fallback 25.
C16_ParseFrameRateTotal ==
    RateParsed =>
        /\ verdict.exc = "none"
        /\ (WellFormedRational(args.rate_str) /\ Huge \notin Range(args.rate_str))
                => verdict.value = Finite(IntOf(args.rate_str[1]), IntOf(args.rate_str[3]))
        /\ args.rate_str = <<"25", Slash, "1">> => verdict.value = Finite(25, 1)
        /\ args.rate_str = <<"30000", Slash, "1001">> => verdict.value = Finite(30000, 1001)
        /\ (~WellFormedRational(args.rate_str) /\ ~FloatLiteral(args.rate_str))
                => verdict.value = Finite(25, 1)

----------------------------------------------------------------------------
(* Properties of the bitrate estimator, under SpecBitrate *)

Estimated == pc = "exited" /\ cmd = "bitrate"

\* the base bitrate of the reference estimator
ReferenceBase(pixels) ==
    IF pixels <= 307200 THEN 1500000
    ELSE IF pixels <= 921600 THEN 3000000
    ELSE IF pixels <= 2073600 THEN 5000000
    ELSE IF pixels <= 8294400 THEN 15000000
    ELSE 40000000

\* trunc(base * min(frameRate / 25, 2)) for a frame rate that is a number
ReferenceScaled(base, fps) ==
    IF fps.kind = "inf" \/ fps.num >= 50 * fps.den
        THEN 2 * base
        ELSE MulDivTrunc(base \div 25, fps.num, fps.den)

\* C14: for every resolution, every frame rate that is a number and every
\* source bitrate, calculate_smart_bitrate returns the source bitrate when it
\* is positive and otherwise trunc(base * min(frameRate / 25, 2)), the base
\* chosen by the pixel count with the breakpoints 307200, 921600, 2073600 and
\* 8294400; (1920, 1080, 25, 0) gives 5000000, (1280, 720, 50, 0) gives
\* 6000000 and (640, 480, 10, 4000000) gives 4000000.
C14_ReferenceEstimator ==
    (Estimated /\ args.fps.kind # "nan") =>
        /\ verdict.exc = "none"
        /\ args.original_bitrate > 0 => verdict.value = args.original_bitrate
        /\ args.original_bitrate <= 0 =>
                verdict.value =
                    ReferenceScaled(ReferenceBase(args.width * args.height), args.fps)
        /\ (args.width = 1920 /\ args.height = 1080 /\ args.fps = Finite(25, 1)
                /\ args.original_bitrate = 0) => verdict.value = 5000000
        /\ (args.width = 1280 /\ args.height = 720 /\ args.fps = Finite(50, 1)
                /\ args.original_bitrate = 0) => verdict.value = 6000000
        /\ (args.width = 640 /\ args.height = 480 /\ args.fps = Finite(10, 1)
                /\ args.original_bitrate = 4000000) => verdict.value = 4000000

\* C14, witness: the estimate of a 640x480 source of unknown bitrate at
\* 30000/1001 frames per second, on the first breakpoint and below the cap.
C14_Witness ==
    /\ Estimated
    /\ args.width = 640 /\ args.height = 480
    /\ args.fps = Finite(30000, 1001)
    /\ args.original_bitrate = 0
    /\ verdict = Returns(1798201)

----------------------------------------------------------------------------
(* Properties of the prober, under SpecProbe *)

Probed == pc = "exited" /\ cmd = "probe"

VideoPositions == {k \in 1..Len(args.answer.streams) :
                        args.answer.streams[k].codec_type = "video"}

\* the stream the claim has the prober select
SelectedStream == args.answer.streams[Least(VideoPositions)]

AbsentOrZero(field) == ~field.present \/ field.v = 0

\* the texts of the model that read as a number
ReadsAsFloat(field) == field.present /\ field.v \in {<<"12.5">>, <<"10">>}
ReadsAsInt(field) == field.present /\ field.v \in {<<"4000000">>, <<"0">>, <<"1001">>}

\* the probe got an answer with a video stream that has a resolution and a
\* frame rate the parser returns a value for
Describable ==
    /\ ~args.answer.error
    /\ VideoPositions # {}
    /\ ~AbsentOrZero(SelectedStream.width)
    /\ ~AbsentOrZero(SelectedStream.height)
    /\ ProbedFps(SelectedStream).exc = "none"

\* C19: probe_video_info describes the first stream of type "video"; it
\* fails when the answer has no video stream and when the width or the height
\* of that stream is absent or zero, so that every record returned has a
\* positive width and a positive height; a duration or a bitrate that is
\* absent or does not read as a number never makes the probe fail and is
\* returned as 0.
C19_ProbeRecord ==
    Probed =>
        /\ (~args.answer.error /\ VideoPositions = {}) => verdict.raised # Passed
        /\ (~args.answer.error /\ VideoPositions # {}
                /\ (AbsentOrZero(SelectedStream.width) \/ AbsentOrZero(SelectedStream.height)))
                => verdict.raised # Passed
        /\ verdict.raised = Passed =>
                /\ verdict.info.width > 0
                /\ verdict.info.height > 0
                /\ verdict.info.width = SelectedStream.width.v
                /\ verdict.info.height = SelectedStream.height.v
                /\ ~ReadsAsFloat(SelectedStream.duration)
                        => verdict.info.duration = Finite(0, 1)
                /\ ~ReadsAsInt(SelectedStream.bit_rate) => verdict.info.bitrate = 0
        /\ Describable => verdict.raised = Passed

\* C19, witness: of two video streams the first has been described, its
\* duration absent and its bitrate unreadable.
C19_Witness ==
    /\ Probed
    /\ Len(args.answer.streams) = 2
    /\ VideoPositions = {1, 2}
    /\ args.answer.streams[1].width = Present(1920)
    /\ args.answer.streams[1].duration = AbsentStr
    /\ args.answer.streams[1].bit_rate = Present(<<"x">>)
    /\ verdict.raised = Passed
    /\ verdict.info.width = 1920
    /\ verdict.info.duration = Finite(0, 1)
    /\ verdict.info.bitrate = 0

----------------------------------------------------------------------------
(* Properties of one merge, under SpecMerge *)

Merged == pc = "exited" /\ cmd = "merge"

Started(step) == Merged /\ step \in Range(verdict.steps)

\* stage 1 reported the encoder: the listing exited 0 and names h264_nvenc
ListingReports == args.stage1 = "listed"

\* C11: check_nvidia_support returns a boolean and raises nothing, whatever
\* the encoder listing and the trial encode do (succeed, fail, time out, find
\* no binary); when neither stage reports the encoder the result is false.
C11_DetectionNeverRaises ==
    Started("detect") =>
        /\ verdict.use_nvenc.exc = "none"
        /\ verdict.use_nvenc.ret \in BOOLEAN
        /\ (~ListingReports /\ args.stage2 # "ok") => verdict.use_nvenc.ret = FALSE

\* C18: detection has two stages: when the listing exits 0 and names
\* h264_nvenc the encoder is reported available and no trial encode is run;
\* the trial is run exactly when stage 1 did not report it, and then a
\* successful trial gives available and every trial error or timeout gives
\* unavailable.
C18_TwoStageDetection ==
    Started("detect") =>
        /\ ListingReports =>
                verdict.use_nvenc = [ret |-> TRUE, exc |-> "none", trial |-> FALSE]
        /\ verdict.use_nvenc.trial = ~ListingReports
        /\ (~ListingReports /\ args.stage2 = "ok") =>
                verdict.use_nvenc = [ret |-> TRUE, exc |-> "none", trial |-> TRUE]
        /\ (~ListingReports /\ args.stage2 # "ok") =>
                verdict.use_nvenc = [ret |-> FALSE, exc |-> "none", trial |-> TRUE]

\* the steps of a merge, in the order of the code
MergeSteps == <<"validate", "probe", "bitrate", "detect", "encode">>

\* C12: merge_video_subtitle starts its steps in the order validate, probe,
\* estimate bitrate, detect hardware, encode, and a step that fails is the
\* last one started: when the validation fails only the validation has been
\* started and the tree, the output path included, is as it was; when the
\* probe fails, neither the detection nor the encode has been started; a
\* merge that raises nothing has started all five.
C12_StepsInOrder ==
    [][(pc = "start" /\ cmd' = "merge") =>
        /\ \E n \in 1..Len(MergeSteps) : verdict'.steps = SubSeq(MergeSteps, 1, n)
        /\ validate_inputs(fs, args'.video, args'.subtitle) # Passed =>
                /\ verdict'.steps = <<"validate">>
                /\ verdict'.raised # Passed
                /\ fs' = fs
        /\ (/\ validate_inputs(fs, args'.video, args'.subtitle) = Passed
            /\ ProbeOutcome(args'.answer) # "ok") =>
                /\ verdict'.steps = <<"validate", "probe">>
                /\ verdict'.raised # Passed
                /\ fs' = fs
        /\ Len(verdict'.steps) < Len(MergeSteps) =>
                /\ verdict'.raised # Passed
                /\ ~verdict'.invocation.built
                /\ fs' = fs
        /\ verdict'.raised = Passed => verdict'.steps = MergeSteps
      ]_vars

\* C12, witness: a merge whose inputs are valid and whose probe failed has
\* stopped after the probe.
C12_Witness ==
    /\ Merged
    /\ validate_inputs(fs, args.video, args.subtitle) = Passed
    /\ args.answer.error
    /\ verdict.steps = <<"validate", "probe">>
    /\ verdict.raised = Raised("RuntimeError", "probe")

\* position k of the string holds a bracket with no backslash before it
UnescapedBracket(str, k) ==
    /\ str[k] \in {"[", "]"}
    /\ (k = 1 \/ str[k - 1] # "\\")

\* C13: the file name given to the subtitles filter of the command is the
\* escaped form of the subtitle path (separators forward slashes, the colon
\* of a drive letter escaped, each bracket escaped), and holds no bracket
\* that is not escaped.
C13_FilterPathEscaped ==
    Started("encode") =>
        /\ verdict.invocation.filter.filename =
                escape_subtitle_path(PathStr(args.subtitle, args.os_name), args.os_name)
        /\ \A k \in 1..Len(verdict.invocation.filter.filename) :
                ~UnescapedBracket(verdict.invocation.filter.filename, k)

\* C15: the target bitrate a merge derives from the record of its probe is a
\* positive integer, whatever frame rate and source bitrate the record holds.
C15_TargetBitratePositive ==
    Started("bitrate") =>
        /\ verdict.smart_bitrate.exc = "none"
        /\ verdict.smart_bitrate.value > 0

\* m is x truncated towards zero, for the rational x = n / d with d > 0
IsTrunc(m, n, d) ==
    IF n >= 0 THEN d * m <= n /\ n < d * (m + 1)
              ELSE d * m >= n /\ n > d * (m - 1)

\* C20: the command uses h264_nvenc exactly when check_nvidia_support
\* returned true and libx264 otherwise; with the target bitrate T the
\* hardware plan has b:v = T, maxrate = trunc(1.2 T), bufsize = 2 T and
\* cq 23 under rc vbr, the software plan has crf 23, b:v = T and threads 0;
\* both copy the audio and set pix_fmt yuv420p.
C20_EncodingPlan ==
    Started("encode") =>
        LET T == verdict.smart_bitrate.value
            output == verdict.invocation.output
            params == verdict.invocation.output.codec_params
        IN  /\ verdict.invocation.built
            /\ output.vcodec = "h264_nvenc" <=> verdict.use_nvenc.ret
            /\ output.vcodec = "libx264" <=> ~verdict.use_nvenc.ret
            /\ verdict.use_nvenc.ret =>
                    /\ params.b_v = T
                    /\ params.limits
                    /\ IsTrunc(params.maxrate, 6 * T, 5)
                    /\ params.bufsize = 2 * T
                    /\ params.cq = "23" /\ params.rc = "vbr" /\ params.crf = Unset
            /\ ~verdict.use_nvenc.ret =>
                    /\ params.crf = "23" /\ params.cq = Unset /\ params.rc = Unset
                    /\ params.b_v = T
                    /\ params.threads = "0"
                    /\ ~params.limits
            /\ output.acodec = "copy"
            /\ output.pix_fmt = "yuv420p"

\* C20, witness: a hardware plan for the estimated bitrate of a 1920x1080
\* source at 30000/1001 frames per second, the trial encode having succeeded.
C20_Witness ==
    /\ Started("encode")
    /\ args.stage1 = "timeout" /\ args.stage2 = "ok"
    /\ verdict.use_nvenc.ret
    /\ verdict.smart_bitrate.value = 5994005
    /\ verdict.invocation.output.vcodec = "h264_nvenc"
    /\ verdict.invocation.output.codec_params.maxrate = 7192806
    /\ verdict.invocation.output.codec_params.bufsize = 11988010

----------------------------------------------------------------------------
(* Order of the batch loop, under Spec *)

\* the pair lists a scan of the tree as it is now can return
RescannedPairs ==
    {find_video_subtitle_pairs(vf, sf) :
        vf \in ScanLists(fs, args.directory, video_extensions),
        sf \in ScanLists(fs, args.directory, subtitle_extensions)}

\* C17: a batch that is not a dry run takes the discovered pairs one at a
\* time in the order of the list: an iteration examines the pair at the
\* loop's position, records its video once, as merged, failed or skipped, and
\* moves to the next position; a merge is started only for the pair at the
\* loop's position, every pair before it having finished; the list is the
\* one computed before the loop, whatever the merges write.
C17_SequentialInOrder ==
    [][pc = "loop" =>
        /\ pairs' = pairs
        /\ merge_calls' # merge_calls =>
                /\ i <= Len(pairs)
                /\ merge_calls' = Append(merge_calls, pairs[i][1])
                /\ \A k \in 1..(i - 1) : pairs[k][1] \in Examined
                /\ pairs[i][1] \notin Examined
        /\ pc' = "loop" =>
                /\ i <= Len(pairs)
                /\ i' = i + 1
                /\ \/ /\ skipped_files' = Append(skipped_files, pairs[i][1])
                      /\ UNCHANGED <<succeeded_files, failed_files, merge_calls, fs>>
                   \/ /\ succeeded_files' = Append(succeeded_files, pairs[i][1])
                      /\ merge_calls' = Append(merge_calls, pairs[i][1])
                      /\ UNCHANGED <<failed_files, skipped_files>>
                   \/ /\ failed_files' = Append(failed_files, pairs[i][1])
                      /\ merge_calls' = Append(merge_calls, pairs[i][1])
                      /\ UNCHANGED <<succeeded_files, skipped_files>>
        /\ (pc' = "exited" /\ exit_status' # 130) =>
                /\ i > Len(pairs)
                /\ Len(succeeded_files) + Len(failed_files) + Len(skipped_files)
                        = Len(pairs)
                /\ \A k \in 1..Len(pairs) : pairs[k][1] \in Examined
      ]_vars

\* C17, witness: a batch has merged its two pairs, in the order of the list,
\* and a scan of the tree it leaves would return another list.
C17_Witness ==
    /\ Merging
    /\ pc = "exited"
    /\ Len(pairs) = 2
    /\ merge_calls = <<pairs[1][1], pairs[2][1]>>
    /\ succeeded_files = merge_calls
    /\ pairs \notin RescannedPairs

----------------------------------------------------------------------------
(* Attribution of the pairs of a batch, under Spec *)

\* the videos of the discovered pairs
PairVideos == {pairs[k][1] : k \in 1..Len(pairs)}

\* C21: in a batch that is not a dry run, an iteration whose merge raised
\* appends the pair's video to the failed list and counts no success, one
\* whose merge returned normally counts one success and records no failure,
\* and one that skipped does neither; when batch_merge returns over n
\* discovered pairs, success_count + len(failed_files) + the number of
\* skipped pairs = n, every pair is in exactly one of the three groups, and
\* the value returned is true exactly when the failed list is empty.
C21_ExactAttribution ==
    [][pc = "loop" =>
        /\ (pc' = "loop" /\ merge_calls' # merge_calls /\ verdict' # Passed) =>
                /\ failed_files' = Append(failed_files, pairs[i][1])
                /\ success_count' = success_count
                /\ skipped_files' = skipped_files
        /\ (pc' = "loop" /\ merge_calls' # merge_calls /\ verdict' = Passed) =>
                /\ success_count' = success_count + 1
                /\ failed_files' = failed_files
                /\ skipped_files' = skipped_files
        /\ (pc' = "loop" /\ merge_calls' = merge_calls) =>
                /\ skipped_files' = Append(skipped_files, pairs[i][1])
                /\ success_count' = success_count
                /\ failed_files' = failed_files
        /\ returned' # <<>> =>
                /\ success_count' + Len(failed_files') + Len(skipped_files')
                        = Len(pairs')
                /\ success_count' = Len(succeeded_files')
                /\ Range(succeeded_files') \cup Range(failed_files')
                        \cup Range(skipped_files') = PairVideos'
                /\ Cardinality(PairVideos') = Len(pairs')
                /\ Range(failed_files') \subseteq Range(merge_calls')
                /\ Range(skipped_files') \cap Range(merge_calls') = {}
                /\ returned' = <<Len(failed_files') = 0>>
      ]_vars

\* C21, witness: batch_merge has returned false over two pairs, the first
\* merged and the second failed.
C21_Witness ==
    /\ Merging
    /\ returned = <<FALSE>>
    /\ Len(pairs) = 2
    /\ success_count = 1
    /\ succeeded_files = <<pairs[1][1]>>
    /\ failed_files = <<pairs[2][1]>>
    /\ skipped_files = <<>>

====
